---- MODULE Spec2Model ----
(***************************************************************************)
(* Dispatch scheduler of the browser-automation system.                    *)
(*                                                                         *)
(* Two state machines share this module:                                   *)
(*   Spec     ClientService (src/src/client/client-service.js): session    *)
(*            intake, the pacing dispatch loop, reply and failure          *)
(*            handling, stop, process end and startup recovery.  An RPC is *)
(*            seen through the promise sendRPCRequest returns.             *)
(*   SpecRPC  RabbitMQSetup.sendRPCRequest (the implementation listed in   *)
(*            src/PRD/browser-automation-prd.md): reply queue, timer,      *)
(*            reply consumer and promise of every send.                    *)
(* SpecShutdown adds the signal handlers of the client and of the worker   *)
(* process (src/src/worker/worker-service.js); SpecRate, SpecPeriodic and  *)
(* SpecSamples drive the RateManager (src/src/proxy/proxy-manager.js), and *)
(* SpecCalls calls single methods with their arguments.                    *)
(* SpecTwice is Spec with the recovery run more than once in a process;    *)
(* FairSpec and FairSpecRPC add the progress of timers and awaited calls.  *)
(* An asynchronous handler is cut at the awaits where other handlers can   *)
(* run; everything between two such awaits is one action.  Every db.query  *)
(* can throw (connection.js rethrows), so every write has a failing        *)
(* outcome.                                                                *)
(***************************************************************************)
EXTENDS Integers, Sequences, FiniteSets, TLC

\* ---------------------------------------------------------------- bounds
SessionOrder == <<1>>   \* session ids in order of intake (uuids are fresh)
MaxTasks == 2           \* tasks generated for one session: 0..MaxTasks
MaxLoops == 2           \* dispatch loops started within one process
MaxRecoveries == 2      \* runs of the recovery within one process
MaxCalls == 2           \* concurrent calls of sendRPCRequest
MaxDeliveries == 2      \* deliveries of one request to the worker
MaxRecorded == 1        \* tasks recorded in one counter of a rate manager
MaxAdjustments == 6     \* adjustments counted by one rate manager
MaxTicks == 1           \* callbacks of the adjustment interval timer
MaxSamples == 101       \* completed tasks recorded while the sample window is watched
MaxActive == 2          \* tasks a worker has received and not yet answered

\* ------------------------------------------------------ program constants
maxRetries == 5         \* this.config.maxRetries
targetTasksPerDay == 8000   \* config.targetTasksPerDay of the rate manager
hoursPerDay == 24           \* config.hoursPerDay
baseRatePerMinute == 556    \* this.config.baseRatePerMinute of ClientService, 5.56

Sessions == {SessionOrder[k] : k \in 1..Len(SessionOrder)}
Tasks == Sessions \X (1..MaxTasks)
SessionOf(t) == t[1]
WorkerTasks == 1..MaxActive

VARIABLES
    \* --- Persistent Store (survives the end of the process)
    dbSession,       \* sessions.status per session id, "none" = no row
    dbTask,          \* tasks.status and tasks.last_error per task
    dbCounters,      \* sessions.tasks_completed and tasks_failed per session
    \* --- ClientService memory
    isRunning,       \* this.isRunning
    consumerUp,      \* the session consumer of setupSessionConsumer exists
    recoveries,      \* runs of the recovery in this process
    activeSessions,  \* keys of this.activeSessions, in insertion order
    rateManagers,    \* keys of this.rateManagers
    loops,           \* the sendNextTask closures started in this process
    inflight,        \* per task, RPC promises not yet settled
    retryTimers,     \* pending setTimeout(() => sendTaskToWorker(task), delay)
    recQueue,        \* recoverPendingTasks: session groups still to resume
    intakePc,        \* per session, position of handleSessionMessage
    \* --- RateManager (this.rateManager of ClientService)
    statistics,      \* this.statistics: tasksStarted, tasksCompleted, tasksFailed,
                     \* averageCompletionTime, rateAdjustments
    currentRateMultiplier,   \* this.currentRateMultiplier, in hundredths
    currentRate,     \* this.currentRate, tasks per minute in hundredths
    adjustmentTimer, \* this.adjustmentTimer: set or null, and its callbacks so far
    emitted,         \* the events emitted by the last call of a RateManager method
    \* --- a method called on its own
    invoked,         \* the method and its arguments
    returned,        \* <<>> until it returns, then <<its result>>
    \* --- process shutdown
    signal,          \* position of the client's SIGINT/SIGTERM handler
    workerPc,        \* position of the worker process and of its handler
    activeTasks,     \* keys of this.activeTasks of WorkerService
    atShutdown,      \* the tasks active when the worker's handler began
                     \* that have not returned since
    waited,          \* Date.now() - startTime of waitForActiveTasks, in ms
    \* --- RabbitMQSetup (the RPC correlator)
    rpcCalls,        \* per sendRPCRequest call: executor, timer, consumer, promise
    workQueue,       \* requests in the tasks queue
    replyQueues      \* per call, the messages in its exclusive reply queue

cvars == <<dbSession, dbTask, dbCounters, isRunning, consumerUp, recoveries,
           activeSessions, rateManagers, loops, inflight, retryTimers,
           recQueue, intakePc>>

rvars == <<rpcCalls, workQueue, replyQueues>>

mvars == <<statistics, currentRateMultiplier, currentRate, adjustmentTimer, emitted>>

fvars == <<invoked, returned>>

svars == <<signal, workerPc, activeTasks, atShutdown, waited>>

vars == <<cvars, rvars, mvars, fvars, svars>>

\* ------------------------------------------------------------ Map helpers
Range(q) == {q[i] : i \in 1..Len(q)}

\* Map.prototype.set on the key sequence: an existing key keeps its place.
MapSet(m, k) == IF k \in Range(m) THEN m ELSE Append(m, k)

\* Map.prototype.delete
MapDelete(m, k) == SelectSeq(m, LAMBDA x : x # k)

\* ----------------------------------------------------- handleTaskFailure
\* A failure handler without the test of the retry count.
RetryAlways(retryCount) == TRUE

\* task.retryCount < this.config.maxRetries; the object literal
\* { correlationId } has no retryCount, and undefined < n is false.
\* A JavaScript number-or-undefined is <<n>> or <<>>.
RetryAllowed(retryCount) ==
    IF retryCount = <<>> THEN FALSE ELSE retryCount[1] < maxRetries

\* Math.pow(2, task.retryCount) * 1000
Pow2(n) == IF n = 0 THEN 1 ELSE IF n = 1 THEN 2 ELSE IF n = 2 THEN 4
           ELSE IF n = 3 THEN 8 ELSE IF n = 4 THEN 16 ELSE 32
BackoffDelay(retryCount) == Pow2(retryCount) * 1000

\* --------------------------------------------------------- store writes
\* updateSessionStatus: UPDATE sessions ... WHERE session_id = $n changes the
\* row if there is one and the query does not throw.
Written(old, new, ok) == IF ok /\ old # "none" THEN new ELSE old

NoRow == [status |-> "none", lastError |-> "null"]

\* updateTaskStatus(correlationId, status, errorMessage = null): status and
\* last_error are set together.  The error is "db" (a query threw) or "rpc"
\* (the RPC promise was rejected).
TaskWritten(old, status, errorMessage, ok) ==
    IF ok /\ old # NoRow
    THEN [status |-> status, lastError |-> errorMessage]
    ELSE old

\* ------------------------------------------------------- RPC correlator
Calls == 1..MaxCalls

\* A call of sendRPCRequest.  Its correlation id is the call's number:
\* generateCorrelationId gives every call a fresh one.
\*   phase     where the promise executor stands: idle, setup (await
\*             setupRPC), consume (await channel.consume), sent (ran to its
\*             end), dead (an await threw: the executor's own promise is
\*             rejected, which nobody handles)
\*   timer     the setTimeout: none, armed, fired, cleared
\*   consumer  the reply consumer registered by channel.consume
\*   promise   pending, resolved or rejected
\*   value     what the promise settled with: the parsed reply body, which
\*             says which request it answers, or the timeout error
\*   delivered outcomes handed to the awaiting caller
\*   acked     replies acknowledged by the consumer callback
\* answers is the number of the call whose request a reply body answers, 0
\* where there is none.
NoValue == [error |-> "none", answers |-> 0]
TimeoutError == [error |-> "timeout", answers |-> 0]
ReplyBody(call) == [error |-> "none", answers |-> call]

IdleCall == [phase |-> "idle", timer |-> "none", consumer |-> FALSE,
             promise |-> "pending", value |-> NoValue, delivered |-> 0,
             acked |-> 0]

\* ---------------------------------------------------------- RateManager
\* The constructor: this.statistics = { tasksCompleted: 0, tasksStarted: 0,
\* tasksFailed: 0, averageCompletionTime: 0, rateAdjustments: 0, ... } and
\* this.currentRateMultiplier = 1.0.  rateAdjustments is a number here and
\* an array after resetStatistics; n is the number or the array's length.
NewStatistics ==
    [tasksStarted |-> 0, tasksCompleted |-> 0, tasksFailed |-> 0,
     averageCompletionTime |-> 0, completionTimes |-> <<>>,
     rateAdjustments |-> [kind |-> "number", n |-> 0]]
NewRateMultiplier == 100

\* baseRatePerMinute = targetTasksPerDay / (hoursPerDay * 60), the first
\* currentRate; hundredths, rounded down.
NewRate == (targetTasksPerDay * 100) \div (hoursPerDay * 60)

\* this.adjustmentTimer = null
NewTimer == [set |-> FALSE, ticks |-> 0]

\* The rate manager as its constructor leaves it.
NewRateManager ==
    /\ statistics' = NewStatistics
    /\ currentRateMultiplier' = NewRateMultiplier
    /\ currentRate' = NewRate
    /\ adjustmentTimer' = NewTimer
    /\ emitted' = <<>>

\* RateManager.start(): nothing when already running; else isRunning = true,
\* startDynamicAdjustment sets the adjustment timer, emit('started').  With
\* dynamic adjustment enabled the timer is set exactly while isRunning.
RateManagerStart ==
    /\ adjustmentTimer' = [adjustmentTimer EXCEPT !.set = TRUE]
    /\ emitted' = IF adjustmentTimer.set THEN <<>> ELSE <<"started">>
    /\ UNCHANGED <<statistics, currentRateMultiplier, currentRate>>

\* RateManager.stop(): nothing when not running; else the timers are cleared,
\* emit('stopped').
RateManagerStop ==
    /\ adjustmentTimer' = [adjustmentTimer EXCEPT !.set = FALSE]
    /\ emitted' = IF adjustmentTimer.set THEN <<"stopped">> ELSE <<>>
    /\ UNCHANGED <<statistics, currentRateMultiplier, currentRate>>

\* sessions.tasks_completed INTEGER DEFAULT 0, tasks_failed INTEGER DEFAULT 0
NewCounters == [tasks_completed |-> 0, tasks_failed |-> 0]

\* --------------------------------------------------------------- initial
\* The program after construction, before start().
InitProgram ==
    /\ dbSession = [s \in Sessions |-> "none"]
    /\ dbTask = [t \in Tasks |-> NoRow]
    /\ dbCounters = [s \in Sessions |-> NewCounters]
    /\ statistics = NewStatistics
    /\ currentRateMultiplier = NewRateMultiplier
    /\ currentRate = NewRate
    /\ adjustmentTimer = NewTimer
    /\ emitted = <<>>
    /\ isRunning = FALSE
    /\ consumerUp = FALSE
    /\ recoveries = 0
    /\ activeSessions = <<>>
    /\ rateManagers = {}
    /\ loops = <<>>
    /\ inflight = [t \in Tasks |-> 0]
    /\ retryTimers = {}
    /\ recQueue = <<>>
    /\ intakePc = [s \in Sessions |-> "none"]
    /\ rpcCalls = [c \in Calls |-> IdleCall]
    /\ workQueue = {}
    /\ replyQueues = [c \in Calls |-> <<>>]
    /\ signal = "none"
    /\ workerPc = "down"
    /\ activeTasks = {}
    /\ atShutdown = {}
    /\ waited = 0

\* No method is called on its own.
NoCall == [method |-> "none", args |-> <<>>]

Init ==
    /\ InitProgram
    /\ invoked = NoCall
    /\ returned = <<>>

\* ------------------------------------------------------- dispatch loop
\* A cursor that reads the list from its end.
TaskFromEnd(lp, i) == <<lp.session, lp.tasks[Len(lp.tasks) + 1 - i]>>

\* const task = tasks[taskIndex++]: the task object at position i of the list.
TaskAt(lp, i) == <<lp.session, lp.tasks[i]>>

\* sendNextTask's guard: if (!this.isRunning || taskIndex >= tasks.length)
LoopFinished(lp) == ~isRunning \/ lp.taskIndex >= Len(lp.tasks)

\* A hand-off that awaited the RPC: it would return once no RPC of t is
\* pending.
SendReturnedOnReply(t) == inflight[t] = 0

\* sendTaskToWorker starts sendRPCRequestNonBlocking without awaiting it and
\* returns { status: "sent" } at once: the step goes on whatever the state of
\* the RPCs of task t.
SendReturned(t) == TRUE

\* A step whose catch block rethrew: the closure would end unscheduled.
PcAfterThrow(failed) == IF failed THEN "done" ELSE "timer"

\* "Always schedule next task": setTimeout(sendNextTask, delayMs) stands after
\* the try/catch, so the step ends scheduled whether or not the send failed.
PcAfterSend(failed) == "timer"

\* startTaskSending: the closure and its first, synchronous sendNextTask()
\* up to the first await that yields to other handlers.
NewLoop(s, taskIdxs, recovered) ==
    LET lp0 == [session |-> s, tasks |-> taskIdxs, recovered |-> recovered,
                retry |-> [i \in 1..Len(taskIdxs) |-> 0],
                taskIndex |-> 0, pc |-> "timer"]
    IN IF LoopFinished(lp0)
       THEN [lp0 EXCEPT !.pc = "completing"]
       ELSE [lp0 EXCEPT !.pc = "writing", !.taskIndex = 1]

\* The RPC promises after the hand-off of the new loop's first task.
AfterFirstSend(s, taskIdxs) ==
    IF NewLoop(s, taskIdxs, FALSE).pc = "writing"
    THEN [inflight EXCEPT ![<<s, taskIdxs[1]>>] = @ + 1]
    ELSE inflight

\* sendNextTask, fired by its timer: the guard, then sendTaskToWorker, which
\* starts the RPC.
SendNextTask(l) ==
    /\ l \in 1..Len(loops)
    /\ loops[l].pc = "timer"
    /\ LET lp == loops[l] IN
       IF LoopFinished(lp)
       THEN /\ loops' = [loops EXCEPT ![l].pc = "completing"]
            /\ UNCHANGED inflight
       ELSE /\ loops' = [loops EXCEPT ![l].pc = "writing",
                                      ![l].taskIndex = lp.taskIndex + 1]
            /\ inflight' = [inflight EXCEPT ![TaskAt(lp, lp.taskIndex + 1)] = @ + 1]
    /\ UNCHANGED <<dbSession, dbTask, isRunning, consumerUp, recoveries,
                   activeSessions, rateManagers, retryTimers, recQueue,
                   intakePc, dbCounters, mvars, rvars, fvars, svars>>

\* handleTaskFailure(task, error) for the task object at position i of loop l
\* (l = 0: the object literal { correlationId }, which no loop holds).
\* Gives the loops, the retry timers and the store after it; ok is whether
\* the status write of the permanent branch succeeds.
FailureLoops(l, i, retryCount) ==
    IF RetryAllowed(retryCount) /\ l > 0
    THEN [loops EXCEPT ![l].retry[i] = @ + 1]
    ELSE loops

FailureTimers(l, t, retryCount) ==
    IF RetryAllowed(retryCount)
    THEN retryTimers \cup
           {[task |-> t, loop |-> l,
             delay |-> IF retryCount = <<>> THEN 0
                       ELSE BackoffDelay(retryCount[1] + 1)]}
    ELSE retryTimers

FailureStore(db, t, retryCount, error, ok) ==
    IF RetryAllowed(retryCount)
    THEN db
    ELSE [db EXCEPT ![t] = TaskWritten(@, "failed", error, ok)]

\* sendNextTask after the hand-off: the status write to sent; on a throw the
\* catch block (status failed with the error, handleTaskFailure(task)); then
\* setTimeout(sendNextTask, delayMs).
SentWrite(l) ==
    /\ l \in 1..Len(loops)
    /\ loops[l].pc = "writing"
    /\ SendReturned(TaskAt(loops[l], loops[l].taskIndex))
    /\ LET lp == loops[l]
           i == lp.taskIndex
           t == TaskAt(lp, i)
       IN \E ok \in BOOLEAN :
          IF ok
          THEN /\ dbTask' = [dbTask EXCEPT ![t] = TaskWritten(@, "sent", "null", TRUE)]
               /\ loops' = [loops EXCEPT ![l].pc = PcAfterSend(FALSE)]
               /\ UNCHANGED retryTimers
          ELSE \E ok2, ok3 \in BOOLEAN :
               /\ dbTask' = FailureStore(
                              [dbTask EXCEPT ![t] = TaskWritten(@, "failed", "db", ok2)],
                              t, <<lp.retry[i]>>, "db", ok3)
               /\ loops' = [FailureLoops(l, i, <<lp.retry[i]>>)
                              EXCEPT ![l].pc = PcAfterSend(TRUE)]
               /\ retryTimers' = FailureTimers(l, t, <<lp.retry[i]>>)
    /\ UNCHANGED <<dbSession, isRunning, consumerUp, recoveries,
                   activeSessions, rateManagers, inflight, recQueue, intakePc,
                   dbCounters, mvars, rvars, fvars, svars>>

\* completeSession, awaited by sendNextTask outside its try block: a throw of
\* the status write skips the two deletes.
CompleteSession(l) ==
    /\ l \in 1..Len(loops)
    /\ loops[l].pc = "completing"
    /\ LET s == loops[l].session IN
       \E ok \in BOOLEAN :
          /\ dbSession' = [dbSession EXCEPT ![s] = Written(@, "completed", ok)]
          /\ activeSessions' = IF ok THEN MapDelete(activeSessions, s)
                               ELSE activeSessions
          /\ rateManagers' = IF ok THEN rateManagers \ {s} ELSE rateManagers
    /\ loops' = [loops EXCEPT ![l].pc = "done"]
    /\ UNCHANGED <<dbTask, isRunning, consumerUp, recoveries, inflight,
                   retryTimers, recQueue, intakePc, dbCounters, mvars, rvars, fvars, svars>>

\* The backoff timer of handleTaskFailure fires: sendTaskToWorker(task).
RetryFire(tm) ==
    /\ tm \in retryTimers
    /\ retryTimers' = retryTimers \ {tm}
    /\ inflight' = [inflight EXCEPT ![tm.task] = @ + 1]
    /\ UNCHANGED <<dbSession, dbTask, isRunning, consumerUp, recoveries,
                   activeSessions, rateManagers, loops, recQueue, intakePc,
                   dbCounters, mvars, rvars, fvars, svars>>

\* ------------------------------------------- reply and failure handling
\* A reply handler that took every reply for a success.
FinalStatusCompleted(status) == "completed"

\* handleTaskResponse: const finalStatus =
\*   response.status === "successful" ? "completed" : "failed"
FinalStatus(status) == IF status = "successful" THEN "completed" ELSE "failed"

\* A reply handler that looked the session up first and dropped the outcome
\* of a stopped session.
RpcResolveUnlessStopped(t, status) ==
    /\ inflight[t] > 0
    /\ inflight' = [inflight EXCEPT ![t] = @ - 1]
    /\ \E ok \in BOOLEAN :
         dbTask' = [dbTask EXCEPT
                      ![t] = TaskWritten(@, FinalStatus(status), "null",
                                         ok /\ dbSession[SessionOf(t)] # "stopped")]
    /\ UNCHANGED <<dbSession, isRunning, consumerUp, recoveries,
                   activeSessions, rateManagers, loops, retryTimers, recQueue,
                   intakePc, dbCounters, mvars, rvars, fvars, svars>>

\* sendRPCRequestNonBlocking, promise resolved: handleTaskResponse, whose
\* try block swallows a throw of either query.
RpcResolve(t, status) ==
    /\ inflight[t] > 0
    /\ inflight' = [inflight EXCEPT ![t] = @ - 1]
    /\ \E ok \in BOOLEAN :
         dbTask' = [dbTask EXCEPT
                      ![t] = TaskWritten(@, FinalStatus(status), "null", ok)]
    /\ UNCHANGED <<dbSession, isRunning, consumerUp, recoveries,
                   activeSessions, rateManagers, loops, retryTimers, recQueue,
                   intakePc, dbCounters, mvars, rvars, fvars, svars>>

\* sendRPCRequestNonBlocking, promise rejected (timeout or failed hand-off):
\* handleTaskFailure({ correlationId }, error).
RpcReject(t) ==
    /\ inflight[t] > 0
    /\ inflight' = [inflight EXCEPT ![t] = @ - 1]
    /\ retryTimers' = FailureTimers(0, t, <<>>)
    /\ loops' = FailureLoops(0, 0, <<>>)
    /\ \E ok \in BOOLEAN : dbTask' = FailureStore(dbTask, t, <<>>, "rpc", ok)
    /\ UNCHANGED <<dbSession, isRunning, consumerUp, recoveries,
                   activeSessions, rateManagers, recQueue, intakePc, dbCounters, mvars, rvars, fvars, svars>>

\* --------------------------------------------------------------- intake
\* The sequence <<1, ..., n>>: the generated (shuffled) list by position.
UpTo(n) == [i \in 1..n |-> i]

\* storeTasks: one INSERT per task, a throw leaves the first j rows.
StoredTasks(s, j) ==
    [t \in Tasks |-> IF SessionOf(t) = s /\ t[2] <= j
                     THEN [status |-> "pending", lastError |-> "null"]
                     ELSE dbTask[t]]

\* The next message of the sessions queue gets a fresh session id.
FreshSession(s) ==
    /\ dbSession[s] = "none"
    /\ intakePc[s] = "none"
    /\ \A r \in Sessions : r < s => intakePc[r] # "none"

\* handleSessionMessage when a query throws before the loop starts: the two
\* catch blocks try to write failed.  j = 0 with no rate manager:
\* initializeRateManager threw; otherwise storeTasks threw after j rows.
IntakeFails(s, n) ==
    /\ consumerUp
    /\ FreshSession(s)
    /\ intakePc' = [intakePc EXCEPT ![s] = "done"]
    /\ \E ok \in BOOLEAN :
         dbSession' = [dbSession EXCEPT ![s] = IF ok THEN "failed" ELSE "processing"]
    /\ \E j \in 0..n :
         \/ /\ j = 0
            /\ UNCHANGED <<dbTask, rateManagers>>
         \/ /\ j < n
            /\ dbTask' = StoredTasks(s, j)
            /\ rateManagers' = rateManagers \cup {s}
    /\ UNCHANGED <<isRunning, consumerUp, recoveries, activeSessions, loops,
                   inflight, retryTimers, recQueue, dbCounters, mvars, rvars, fvars, svars>>

\* handleSessionMessage up to the hand-off of the first task: storeSession,
\* processSession (initializeRateManager, startTaskDistribution).
Intake(s, n) ==
    /\ consumerUp
    /\ FreshSession(s)
    /\ Len(loops) < MaxLoops
    /\ dbSession' = [dbSession EXCEPT ![s] = "processing"]
    /\ dbTask' = StoredTasks(s, n)
    /\ rateManagers' = rateManagers \cup {s}
    /\ loops' = Append(loops, NewLoop(s, UpTo(n), FALSE))
    /\ inflight' = AfterFirstSend(s, UpTo(n))
    /\ activeSessions' = MapSet(activeSessions, s)
    /\ intakePc' = [intakePc EXCEPT ![s] = "activeWrite"]
    /\ UNCHANGED <<isRunning, consumerUp, recoveries, retryTimers, recQueue,
                   dbCounters, mvars, rvars, fvars, svars>>

\* processSession's last await, updateSessionStatus(active); a throw ends in
\* the catch blocks, which try to write failed.
IntakeActiveWrite(s) ==
    /\ intakePc[s] = "activeWrite"
    /\ intakePc' = [intakePc EXCEPT ![s] = "done"]
    /\ \E ok \in BOOLEAN :
         IF ok
         THEN dbSession' = [dbSession EXCEPT ![s] = Written(@, "active", TRUE)]
         ELSE \E ok2 \in BOOLEAN :
                dbSession' = [dbSession EXCEPT ![s] = Written(@, "failed", ok2)]
    /\ UNCHANGED <<dbTask, isRunning, consumerUp, recoveries, activeSessions,
                   rateManagers, loops, inflight, retryTimers, recQueue, dbCounters, mvars, rvars, fvars, svars>>

\* ------------------------------------------------ stop and process end
\* stopSession: clearInterval of rateManager.intervalId (always null, so
\* nothing is cleared), the two deletes, then the status write.  The loop's
\* setTimeout is not among the things it clears.
StopSession(s) ==
    /\ consumerUp
    /\ dbSession[s] # "none"
    /\ activeSessions' = MapDelete(activeSessions, s)
    /\ rateManagers' = rateManagers \ {s}
    /\ \E ok \in BOOLEAN :
         dbSession' = [dbSession EXCEPT ![s] = Written(@, "stopped", ok)]
    /\ UNCHANGED <<dbTask, isRunning, consumerUp, recoveries, loops, inflight,
                   retryTimers, recQueue, intakePc, dbCounters, mvars, rvars, fvars, svars>>

\* stop(): isRunning = false, then stopSession for every entry of
\* activeSessions in Map order; the first throw ends the iteration.  k
\* sessions are stopped before a throw (none thrown when k is the size).
StopSessions(k) ==
    /\ isRunning' = FALSE
    /\ LET done == {activeSessions[i] : i \in 1..k}
           hit == {activeSessions[i] : i \in 1..(IF k < Len(activeSessions)
                                                 THEN k + 1 ELSE k)}
       IN /\ activeSessions' = SelectSeq(activeSessions, LAMBDA x : x \notin hit)
          /\ rateManagers' = rateManagers \ hit
          /\ dbSession' = [s \in Sessions |->
                             IF s \in done THEN Written(dbSession[s], "stopped", TRUE)
                             ELSE dbSession[s]]
    /\ RateManagerStop
    /\ UNCHANGED <<dbTask, consumerUp, recoveries, loops, inflight,
                   retryTimers, recQueue, intakePc, dbCounters, rvars, fvars>>

\* stop() called in a running service.
Stop ==
    /\ isRunning
    /\ \E k \in 0..Len(activeSessions) : StopSessions(k)
    /\ UNCHANGED svars

\* The process ends (kill, process.exit): memory is lost, the store stays.
ProcessEnds ==
    /\ isRunning' = FALSE
    /\ consumerUp' = FALSE
    /\ recoveries' = 0
    /\ activeSessions' = <<>>
    /\ rateManagers' = {}
    /\ loops' = <<>>
    /\ inflight' = [t \in Tasks |-> 0]
    /\ retryTimers' = {}
    /\ recQueue' = <<>>
    /\ intakePc' = [s \in Sessions |-> IF intakePc[s] = "none" THEN "none" ELSE "done"]
    /\ NewRateManager
    /\ UNCHANGED <<dbSession, dbTask, dbCounters, rvars, fvars>>

\* The process ends at any time after its start.
Crash ==
    /\ consumerUp
    /\ ProcessEnds
    /\ UNCHANGED svars

\* ------------------------------------------------------------- recovery
\* recoverActiveSessionsWithFallback: activeSessions.set for every session
\* whose status is processing or active, ORDER BY created_at.
RecoveredActive(m) ==
    LET ids == SelectSeq(SessionOrder,
                         LAMBDA s : dbSession[s] \in {"processing", "active"}) IN
    LET RECURSIVE F(_, _)
        F(acc, i) == IF i > Len(ids) THEN acc ELSE F(MapSet(acc, ids[i]), i + 1)
    IN F(m, 1)

\* The session statuses the recovery query of recoverPendingTasks accepts.
ResumableStatus == {"active", "processing", "completed"}

\* recoverPendingTasks, the query: tasks in status pending or sent of the
\* sessions in ResumableStatus, grouped by session.
RecoveryRows(s) ==
    LET idx == SelectSeq(UpTo(MaxTasks),
                         LAMBDA i : dbTask[<<s, i>>].status \in {"pending", "sent"})
    IN [k \in 1..Len(idx) |->
          [idx |-> idx[k], status |-> dbTask[<<s, idx[k]>>].status]]

RecoveryGroups ==
    LET ids == SelectSeq(SessionOrder,
                         LAMBDA s : /\ dbSession[s] \in ResumableStatus
                                    /\ Len(RecoveryRows(s)) > 0)
    IN [k \in 1..Len(ids) |-> [session |-> ids[k], rows |-> RecoveryRows(ids[k])]]

\* The recovery without its filter.
FilterNothing(rows) == rows

\* sessionData.tasks.filter((task) => task.status === "pending")
FilterPending(rows) == SelectSeq(rows, LAMBDA r : r.status = "pending")

\* recoverActiveSessionsWithFallback and the query of recoverPendingTasks.
\* Either query can throw: the first is swallowed (development) or ends
\* start() (production), the second is swallowed.
Recovery ==
    /\ recoveries' = recoveries + 1
    /\ \E okA \in BOOLEAN :
         activeSessions' = IF okA THEN RecoveredActive(activeSessions)
                           ELSE activeSessions
    /\ \E okB \in BOOLEAN :
         recQueue' = IF okB THEN RecoveryGroups ELSE <<>>

\* start(), called once by startClientService: the session consumer,
\* isRunning = true, then the recovery.  The session messages of a starting
\* process are taken to be handled after the recovery's queries.
Start ==
    /\ ~consumerUp
    /\ consumerUp' = TRUE
    /\ isRunning' = TRUE
    /\ RateManagerStart
    /\ Recovery
    /\ UNCHANGED <<dbSession, dbTask, rateManagers, loops, inflight,
                   retryTimers, intakePc, dbCounters, rvars, fvars, svars>>

\* The recovery run once more in a started process, after the run before it
\* has finished.
RecoverAgain ==
    /\ consumerUp
    /\ recQueue = <<>>
    /\ recoveries < MaxRecoveries
    /\ Recovery
    /\ UNCHANGED <<dbSession, dbTask, isRunning, consumerUp, rateManagers,
                   loops, inflight, retryTimers, intakePc, dbCounters, mvars, rvars, fvars, svars>>

\* recoverPendingTasks, the catch of one turn of the for loop:
\* updateSessionStatus(sessionId, "failed", "Recovery failed: ..."); a throw
\* of that write leaves the for loop for the outer catch.
ResumeFailed(s, ok2) ==
    /\ dbSession' = [dbSession EXCEPT ![s] = Written(@, "failed", ok2)]
    /\ recQueue' = IF ok2 THEN Tail(recQueue) ELSE <<>>
    /\ UNCHANGED <<rateManagers, loops, inflight, activeSessions>>

\* recoverPendingTasks, one turn of "for (const [sessionId, sessionData] of
\* tasksBySession)": initializeRateManager, the filter, startTaskSending and
\* activeSessions.set; the catch writes failed, and a throw of that write
\* leaves the for loop.
ResumeSession ==
    /\ recQueue # <<>>
    /\ LET g == Head(recQueue)
           s == g.session
           pending == FilterPending(g.rows)
           idxs == [k \in 1..Len(pending) |-> pending[k].idx]
       IN \E ok \in BOOLEAN :
          IF ok
          THEN /\ rateManagers' = rateManagers \cup {s}
               /\ recQueue' = Tail(recQueue)
               /\ IF Len(pending) > 0
                  THEN /\ Len(loops) < MaxLoops
                       /\ loops' = Append(loops, NewLoop(s, idxs, TRUE))
                       /\ inflight' = AfterFirstSend(s, idxs)
                       /\ activeSessions' = MapSet(activeSessions, s)
                  ELSE UNCHANGED <<loops, inflight, activeSessions>>
               /\ UNCHANGED dbSession
          ELSE \E ok2 \in BOOLEAN : ResumeFailed(s, ok2)
    /\ UNCHANGED <<dbTask, isRunning, consumerUp, recoveries, retryTimers,
                   intakePc, dbCounters, mvars, rvars, fvars, svars>>

\* ------------------------------------------------------- specification
Next ==
    \/ Start
    \/ ResumeSession
    \/ \E s \in Sessions, n \in 0..MaxTasks : Intake(s, n)
    \/ \E s \in Sessions, n \in 0..MaxTasks : IntakeFails(s, n)
    \/ \E s \in Sessions : IntakeActiveWrite(s)
    \/ \E l \in 1..MaxLoops : SendNextTask(l)
    \/ \E l \in 1..MaxLoops : SentWrite(l)
    \/ \E l \in 1..MaxLoops : CompleteSession(l)
    \/ \E tm \in retryTimers : RetryFire(tm)
    \/ \E t \in Tasks, st \in {"successful", "failed"} : RpcResolve(t, st)
    \/ \E t \in Tasks : RpcReject(t)
    \/ \E s \in Sessions : StopSession(s)
    \/ Stop
    \/ Crash

Spec == Init /\ [][Next]_vars

\* Recovery run more than once in a process, over a store that the replies
\* and the stop operations leave alone.
NextTwice ==
    \/ Start
    \/ RecoverAgain
    \/ ResumeSession
    \/ \E s \in Sessions, n \in 0..MaxTasks : Intake(s, n)
    \/ \E s \in Sessions : IntakeActiveWrite(s)
    \/ \E l \in 1..MaxLoops : SendNextTask(l)
    \/ \E l \in 1..MaxLoops : SentWrite(l)
    \/ \E l \in 1..MaxLoops : CompleteSession(l)
    \/ Crash

SpecTwice == Init /\ [][NextTwice]_vars

\* handleTaskFailure(task, error) called with a task object that a dispatch
\* loop has taken from its list, as often as a caller does: the retry branch
\* counts and schedules, the permanent branch writes failed.
HandleTaskFailure(l, i) ==
    /\ l \in 1..Len(loops)
    /\ i \in 1..loops[l].taskIndex
    /\ loops' = FailureLoops(l, i, <<loops[l].retry[i]>>)
    /\ retryTimers' = FailureTimers(l, TaskAt(loops[l], i), <<loops[l].retry[i]>>)
    /\ \E ok \in BOOLEAN :
         dbTask' = FailureStore(dbTask, TaskAt(loops[l], i),
                                <<loops[l].retry[i]>>, "rpc", ok)
    /\ UNCHANGED <<dbSession, isRunning, consumerUp, recoveries,
                   activeSessions, rateManagers, inflight, recQueue, intakePc,
                   dbCounters, mvars, rvars, fvars, svars>>

\* The dispatch loops with the failure handler called any number of times
\* for the tasks they hold.
NextFailure ==
    \/ Start
    \/ ResumeSession
    \/ \E s \in Sessions, n \in 0..MaxTasks : Intake(s, n)
    \/ \E l \in 1..MaxLoops : SendNextTask(l)
    \/ \E l \in 1..MaxLoops : SentWrite(l)
    \/ \E l \in 1..MaxLoops : CompleteSession(l)
    \/ \E l \in 1..MaxLoops, i \in 1..MaxTasks : HandleTaskFailure(l, i)
    \/ Crash

SpecFailure == Init /\ [][NextFailure]_vars

\* ------------------------------------------------------ process shutdown
\* startClientService, the SIGINT/SIGTERM handler up to the return of
\* await clientService.stop(); a throw of a stopSession rejects the handler.
ClientSignal ==
    /\ consumerUp
    /\ signal = "none"
    /\ \E k \in 0..Len(activeSessions) :
         /\ StopSessions(k)
         /\ signal' = IF k = Len(activeSessions) THEN "stopped" ELSE "rejected"
    /\ UNCHANGED <<workerPc, activeTasks, atShutdown, waited>>

\* await db.close()
ClientCloseStore ==
    /\ signal = "stopped"
    /\ signal' = "storeClosed"
    /\ UNCHANGED <<cvars, rvars, mvars, fvars, workerPc, activeTasks,
                   atShutdown, waited>>

\* await rabbitmq.close(): the connection to the work channel is closed.
ClientCloseConnection ==
    /\ signal = "storeClosed"
    /\ signal' = "closed"
    /\ UNCHANGED <<cvars, rvars, mvars, fvars, workerPc, activeTasks,
                   atShutdown, waited>>

\* process.exit(0), or the end of the process after the rejected handler.
ClientExit ==
    /\ signal \in {"closed", "rejected"}
    /\ signal' = "none"
    /\ ProcessEnds
    /\ UNCHANGED <<workerPc, activeTasks, atShutdown, waited>>

\* waitForActiveTasks(timeoutMs = 30000) and the period of its polling timer.
timeoutMs == 30000
pollMs == 1000

\* startWorkerService: workerService.start(), the task consumer is set up.
WorkerStart ==
    /\ workerPc = "down"
    /\ workerPc' = "running"
    /\ UNCHANGED <<cvars, rvars, mvars, fvars, signal, activeTasks,
                   atShutdown, waited>>

\* handleTaskMessage, up to this.activeTasks.set(taskId, ...): the consumer
\* delivers as long as the connection is open, whatever isRunning is.
HandleTaskMessage(taskId) ==
    /\ workerPc \in {"running", "waiting", "stopped"}
    /\ taskId \notin activeTasks
    /\ activeTasks' = activeTasks \cup {taskId}
    /\ UNCHANGED <<cvars, rvars, mvars, fvars, signal, workerPc, atShutdown,
                   waited>>

\* handleTaskMessage, this.activeTasks.delete(taskId) of either branch.
TaskReturns(taskId) ==
    /\ workerPc # "down"
    /\ taskId \in activeTasks
    /\ activeTasks' = activeTasks \ {taskId}
    /\ atShutdown' = atShutdown \ {taskId}
    /\ UNCHANGED <<cvars, rvars, mvars, fvars, signal, workerPc, waited>>

\* The worker's SIGINT/SIGTERM handler, workerService.stop() up to its
\* first await: waitForActiveTasks is called if a task is active.
WorkerSignal ==
    /\ workerPc = "running"
    /\ atShutdown' = activeTasks
    /\ waited' = 0
    /\ workerPc' = IF activeTasks # {} THEN "waiting" ELSE "stopped"
    /\ UNCHANGED <<cvars, rvars, mvars, fvars, signal, activeTasks>>

\* while (this.activeTasks.size > 0 && Date.now() - startTime < timeoutMs)
KeepsWaiting(active, elapsed) == active # {} /\ elapsed < timeoutMs

\* waitForActiveTasks, one test of the while condition: another second of
\* waiting, or the return to stop().
WaitForActiveTasks ==
    /\ workerPc = "waiting"
    /\ IF KeepsWaiting(activeTasks, waited)
       THEN /\ waited' = waited + pollMs
            /\ UNCHANGED workerPc
       ELSE /\ workerPc' = "stopped"
            /\ UNCHANGED waited
    /\ UNCHANGED <<cvars, rvars, mvars, fvars, signal, activeTasks, atShutdown>>

\* The rest of stop() (the browser is closed), then await rabbitmq.close().
WorkerCloseConnection ==
    /\ workerPc = "stopped"
    /\ workerPc' = "closed"
    /\ UNCHANGED <<cvars, rvars, mvars, fvars, signal, activeTasks,
                   atShutdown, waited>>

\* process.exit(0) of the worker.
WorkerExit ==
    /\ workerPc = "closed"
    /\ workerPc' = "down"
    /\ activeTasks' = {}
    /\ atShutdown' = {}
    /\ waited' = 0
    /\ UNCHANGED <<cvars, rvars, mvars, fvars, signal>>

\* The client and the worker, each with its shutdown handler as the only
\* caller of stop().
NextShutdown ==
    \/ Start
    \/ \E s \in Sessions, n \in 0..MaxTasks : Intake(s, n)
    \/ \E l \in 1..MaxLoops : SendNextTask(l)
    \/ \E l \in 1..MaxLoops : SentWrite(l)
    \/ \E l \in 1..MaxLoops : CompleteSession(l)
    \/ \E t \in Tasks, st \in {"successful", "failed"} : RpcResolve(t, st)
    \/ ClientSignal
    \/ ClientCloseStore
    \/ ClientCloseConnection
    \/ ClientExit
    \/ WorkerStart
    \/ \E taskId \in WorkerTasks : HandleTaskMessage(taskId)
    \/ \E taskId \in WorkerTasks : TaskReturns(taskId)
    \/ WorkerSignal
    \/ WaitForActiveTasks
    \/ WorkerCloseConnection
    \/ WorkerExit

SpecShutdown == Init /\ [][NextShutdown]_vars

\* The loop's own steps go on: a timer that is set fires, an awaited query
\* returns or throws.  Nothing is assumed of replies, retries, stops or the
\* process's end.
FairLoop ==
    \A l \in 1..MaxLoops :
        /\ WF_vars(SendNextTask(l))
        /\ WF_vars(SentWrite(l))
        /\ WF_vars(CompleteSession(l))

FairSpec == Spec /\ FairLoop

\* --------------------------------------------------- RateManager actions
\* Numbers of the rate manager are in hundredths: the multiplier 1.0 is 100,
\* a success rate of 0.95 is 95; completion times are in milliseconds.

\* config.enableDynamicAdjustment, true unless configured false.
enableDynamicAdjustment == TRUE

\* The arguments of adjustRateBasedOnPerformance, with the values on and
\* next to its thresholds.
SuccessRates == {10, 50, 80, 90, 95, 100}
CompletionTimes == {1000, 3000, 5000, 10000, 20000}
ScheduleProgresses == {10, 80, 100, 120, 130}

\* The three signals, summed.
SignalSum(successRate, avgCompletionTime, scheduleProgress) ==
    (IF successRate < 80 THEN -20 ELSE IF successRate > 95 THEN 10 ELSE 0)
    + (IF avgCompletionTime > 10000 THEN -15
       ELSE IF avgCompletionTime < 3000 THEN 10 ELSE 0)
    + (IF scheduleProgress < 80 THEN 20
       ELSE IF scheduleProgress > 120 THEN -10 ELSE 0)

\* "Force minimum adjustment": a sum below 0.01 in size is replaced.
Adjustment(successRate, avgCompletionTime, scheduleProgress) ==
    LET sum == SignalSum(successRate, avgCompletionTime, scheduleProgress) IN
    IF sum = 0
    THEN IF successRate > 95 /\ avgCompletionTime < 3000 THEN 5
         ELSE IF successRate < 80 \/ avgCompletionTime > 10000 THEN -5
         ELSE 0
    ELSE sum

\* getCurrentRatePerMinute(): baseRatePerMinute * currentRateMultiplier
CurrentRatePerMinute(multiplier) == NewRate * multiplier

\* A rate manager that does not enforce the bounds.
Unbounded(multiplier) == multiplier

\* Math.max(0.1, Math.min(3.0, multiplier))
EnforceBounds(multiplier) ==
    LET capped == IF multiplier < 300 THEN multiplier ELSE 300 IN
    IF capped > 10 THEN capped ELSE 10

\* this.statistics.rateAdjustments++ : a number is counted up; an array is
\* converted to a number first, the empty one to 0 and any other to NaN.
Incremented(ra) ==
    IF ra.kind = "number" THEN [kind |-> "number", n |-> ra.n + 1]
    ELSE IF ra.kind = "array" /\ ra.n = 0 THEN [kind |-> "number", n |-> 1]
    ELSE [kind |-> "NaN", n |-> 0]

\* adjustRateBasedOnPerformance(successRate, avgCompletionTime,
\* scheduleProgress): an adjustment above 0.01 in size is added to the
\* multiplier, the bounds are enforced, rateAdjustments++ and
\* emit('rateChanged').
AdjustRate(successRate, avgCompletionTime, scheduleProgress) ==
    LET adjustment == Adjustment(successRate, avgCompletionTime, scheduleProgress) IN
    /\ enableDynamicAdjustment
    /\ IF adjustment # 0
       THEN /\ statistics.rateAdjustments.n < MaxAdjustments
            /\ currentRateMultiplier' = EnforceBounds(currentRateMultiplier + adjustment)
            /\ statistics' = [statistics EXCEPT !.rateAdjustments = Incremented(@)]
            /\ emitted' = <<"rateChanged">>
       ELSE /\ emitted' = <<>>
            /\ UNCHANGED <<currentRateMultiplier, statistics>>
    /\ UNCHANGED <<currentRate, adjustmentTimer, cvars, rvars, fvars, svars>>

\* recordTaskStarted, recordTaskCompleted, recordTaskFailed
RecordTaskStarted ==
    /\ statistics.tasksStarted < MaxRecorded
    /\ statistics' = [statistics EXCEPT !.tasksStarted = @ + 1]
    /\ emitted' = <<"taskStarted">>
    /\ UNCHANGED <<currentRateMultiplier, currentRate, adjustmentTimer, cvars, rvars, fvars, svars>>

\* if (this.statistics.completionTimes.length > 100)
maxCompletionTimes == 100

\* A sample of statistics.completionTimes is the number recordTaskCompleted
\* pushes or the { time, timestamp } entry updateCompletionTime pushes.
\* completionTimes.slice(-100) of a list longer than 100
LastSamples(times) ==
    IF Len(times) > maxCompletionTimes
    THEN SubSeq(times, Len(times) - maxCompletionTimes + 1, Len(times))
    ELSE times

\* recordTaskCompleted(completionTime), for at most limit recorded tasks.
TaskCompleted(limit) ==
    /\ statistics.tasksCompleted < limit
    /\ statistics' = [statistics EXCEPT
                        !.tasksCompleted = @ + 1,
                        !.completionTimes = LastSamples(Append(@, "number"))]
    /\ emitted' = <<"taskCompleted">>
    /\ UNCHANGED <<currentRateMultiplier, currentRate, adjustmentTimer, cvars, rvars, fvars, svars>>

RecordTaskCompleted == TaskCompleted(MaxRecorded)

RecordTaskFailed ==
    /\ statistics.tasksFailed < MaxRecorded
    /\ statistics' = [statistics EXCEPT !.tasksFailed = @ + 1]
    /\ emitted' = <<"taskFailed">>
    /\ UNCHANGED <<currentRateMultiplier, currentRate, adjustmentTimer, cvars, rvars, fvars, svars>>

\* Averages that updateCompletionTime can leave: between the thresholds of
\* calculateRateAdjustment and above them (the 0 of the constructor is below).
AverageTimes == {30000, 90000}

\* updateCompletionTime, the list after the push and the filter
\* entry.timestamp > cutoff: the new entry stays; the entries before it are
\* all inside the statistics window or all older than it (expired); a bare
\* number has no timestamp, and undefined > cutoff is false.
UpdateCompletionTime(times, expired) ==
    Append(IF expired THEN <<>> ELSE SelectSeq(times, LAMBDA x : x = "entry"),
           "entry")

\* recordTaskCompletion(taskId, completionTime, success), for at most limit
\* recorded tasks: a success counts and updateCompletionTime sets the list
\* and the average over the statistics window, here one of AverageTimes; a
\* failure counts as failed.
TaskCompletion(average, success, expired, limit) ==
    /\ IF success
       THEN /\ statistics.tasksCompleted < limit
            /\ statistics' = [statistics EXCEPT
                                !.tasksCompleted = @ + 1,
                                !.averageCompletionTime = average,
                                !.completionTimes = UpdateCompletionTime(@, expired)]
       ELSE /\ statistics.tasksFailed < MaxRecorded
            /\ ~expired
            /\ statistics' = [statistics EXCEPT !.tasksFailed = @ + 1]
    /\ emitted' = <<"taskCompleted">>
    /\ UNCHANGED <<currentRateMultiplier, currentRate, adjustmentTimer, cvars, rvars, fvars, svars>>

RecordTaskCompletion(average, success, expired) ==
    TaskCompletion(average, success, expired, MaxRecorded)

\* resetStatistics(): the counters are 0 again and rateAdjustments is [].
ResetStatistics ==
    /\ statistics' = [NewStatistics EXCEPT !.rateAdjustments = [kind |-> "array", n |-> 0]]
    /\ emitted' = <<"statisticsReset">>
    /\ UNCHANGED <<currentRateMultiplier, currentRate, adjustmentTimer, cvars, rvars, fvars, svars>>

\* getExpectedProgress(): the part of the day elapsed, in hundredths.
ExpectedProgresses == {0, 100}

\* calculateRateAdjustment(stats) with the statistics of
\* getCurrentStatistics: successRate = tasksCompleted / total (1 when nothing
\* is recorded), completionRate = tasksCompleted / targetTasksPerDay against
\* the expected progress; the sum is capped to maxRateAdjustment = 0.5.
CalculateRateAdjustment(expected) ==
    LET completed == statistics.tasksCompleted
        total == statistics.tasksCompleted + statistics.tasksFailed
        sum ==
          (IF total > 0 /\ completed * 100 < 80 * total THEN -20
           ELSE IF total = 0 \/ completed * 100 > 95 * total THEN 10 ELSE 0)
          + (IF statistics.averageCompletionTime > 60000 THEN -15
             ELSE IF statistics.averageCompletionTime < 15000 THEN 10 ELSE 0)
          + (IF completed * 1000 < expected * 9 * targetTasksPerDay THEN 20
             ELSE IF completed * 1000 > expected * 11 * targetTasksPerDay THEN -10
             ELSE 0)
        capped == IF sum < 50 THEN sum ELSE 50
    IN IF capped > -50 THEN capped ELSE -50

\* Math.max(minTasksPerMinute, Math.min(maxTasksPerMinute, rate))
RateWithinLimits(rate) ==
    LET capped == IF rate < 2000 THEN rate ELSE 2000 IN
    IF capped > 100 THEN capped ELSE 100

\* adjustRate(), the callback of the adjustment timer: an adjustment above
\* 0.01 in size changes currentRate in proportion; then
\* this.statistics.rateAdjustments.push(record) and emit('rateAdjusted').
\* push exists on an array only: on the number of the constructor the call
\* throws and the catch emits 'adjustmentError'.
AdjustRateTick(expected) ==
    LET adjustment == CalculateRateAdjustment(expected) IN
    /\ adjustmentTimer.set
    /\ adjustmentTimer.ticks < MaxTicks
    /\ adjustmentTimer' = [adjustmentTimer EXCEPT !.ticks = @ + 1]
    /\ IF adjustment # 0
       THEN /\ currentRate' =
                 RateWithinLimits((currentRate * (100 + adjustment)) \div 100)
            /\ IF statistics.rateAdjustments.kind = "array"
               THEN /\ statistics.rateAdjustments.n < MaxAdjustments
                    /\ statistics' = [statistics EXCEPT !.rateAdjustments.n = @ + 1]
                    /\ emitted' = <<"rateAdjusted">>
               ELSE /\ emitted' = <<"adjustmentError">>
                    /\ UNCHANGED statistics
       ELSE /\ emitted' = <<>>
            /\ UNCHANGED <<currentRate, statistics>>
    /\ UNCHANGED <<currentRateMultiplier, cvars, rvars, fvars, svars>>

\* start() and stop() of the rate manager on their own.
RateStart == RateManagerStart /\ UNCHANGED <<cvars, rvars, fvars, svars>>

RateStop == RateManagerStop /\ UNCHANGED <<cvars, rvars, fvars, svars>>

\* A rate manager after its constructor, with adjustRateBasedOnPerformance
\* and the record methods called in any order.
NextRate ==
    \/ \E sr \in SuccessRates, ct \in CompletionTimes, sp \in ScheduleProgresses :
         AdjustRate(sr, ct, sp)
    \/ RecordTaskStarted
    \/ RecordTaskCompleted
    \/ RecordTaskFailed

\* Arguments of adjustRateBasedOnPerformance, one for each way a call can
\* go: a signal alone, no signal, signals that cancel, a forced speed-up.
MixedArguments ==
    {<<50, 5000, 100>>, <<90, 5000, 100>>, <<50, 5000, 10>>, <<100, 1000, 130>>}

\* A started rate manager: the adjustment timer fires, the statistics are
\* recorded and reset, and adjustRateBasedOnPerformance is called as well.
NextPeriodic ==
    \/ \E e \in ExpectedProgresses : AdjustRateTick(e)
    \/ \E x \in MixedArguments : AdjustRate(x[1], x[2], x[3])
    \/ \E a \in AverageTimes, ok, expired \in BOOLEAN :
         RecordTaskCompletion(a, ok, expired)
    \/ ResetStatistics
    \/ RateStart
    \/ RateStop

SpecPeriodic == Init /\ [][NextPeriodic]_vars

\* The two recording operations called for up to MaxSamples completed tasks;
\* every completion takes the same time, so the average stays where the
\* first call sets it.
NextSamples ==
    \/ TaskCompleted(MaxSamples)
    \/ \E expired \in BOOLEAN : TaskCompletion(30000, TRUE, expired, MaxSamples)
    \/ TaskCompletion(30000, FALSE, FALSE, MaxSamples)
    \/ ResetStatistics

SpecSamples == Init /\ [][NextSamples]_vars

SpecRate == Init /\ [][NextRate]_vars

\* ------------------------------------------- methods called on their own
\* A method whose result depends on its arguments only is called with
\* arguments drawn in the initial state and returns once.
Calling(method) == invoked.method = method /\ returned = <<>>

Returns(value) ==
    /\ returned' = <<value>>
    /\ UNCHANGED <<invoked, cvars, rvars, mvars, svars>>

\* The delay as computed, without floor and ceiling.
DelayAsComputed(delayMs) == delayMs

\* Math.max(1000, Math.min(20000, delayMs))
ClampDelay(delayMs) ==
    LET capped == IF delayMs < 20000 THEN delayMs ELSE 20000 IN
    IF capped > 1000 THEN capped ELSE 1000

\* calculateNextTaskDelay(): (60 / getCurrentRatePerMinute()) * 1000 times
\* the random factor, clamped.  The rates and the multiplier are in
\* hundredths, the random factor 0.75..1.25 in hundredths, the delay in ms,
\* rounded down.
CalculateNextTaskDelay(baseRate, multiplier, randomFactor) ==
    ClampDelay((6000000 * randomFactor) \div (baseRate * multiplier))

\* Base rates from 0.01 to 1000 tasks per minute, the multipliers that
\* adjustRateBasedOnPerformance can leave, and the ends and the middle of
\* 0.75 + Math.random() * 0.5.
BaseRates == {1, 100, 300, 556, 2000, 100000}
Multipliers == {10, 50, 100, 200, 300}
RandomFactors == {75, 100, 125}

DelayCalls ==
    {[method |-> "calculateNextTaskDelay", args |-> <<b, m, r>>] :
        b \in BaseRates, m \in Multipliers, r \in RandomFactors}

ReturnDelay ==
    /\ Calling("calculateNextTaskDelay")
    /\ Returns(CalculateNextTaskDelay(invoked.args[1], invoked.args[2], invoked.args[3]))

\* sendNextTask in debug fast mode, the delay handed to setTimeout:
\* Math.min(baseDelay, minDelay + Math.random() * (maxDelay - minDelay))
\* with baseDelay = (60 / debugTasksPerMinute) * 1000.  Delays in ms, rounded
\* down; Math.random() in hundredths, 0..99.
DebugDelay(debugTasksPerMinute, debugMinDelayMs, debugMaxDelayMs, random) ==
    LET baseDelay == 60000 \div debugTasksPerMinute
        inRange == debugMinDelayMs
                     + (random * (debugMaxDelayMs - debugMinDelayMs)) \div 100
    IN IF baseDelay < inRange THEN baseDelay ELSE inRange

\* Debug rates from 1 to 600 tasks per minute (60 is the default), floors
\* and ceilings with the floor below the ceiling (1000 and 5000 are the
\* defaults), and the ends and the middle of Math.random().
DebugRates == {1, 30, 60, 120, 600}
DebugDelayRanges == {<<1000, 5000>>, <<1000, 20000>>, <<100, 500>>}
Randoms == {0, 50, 99}

DebugDelayCalls ==
    {[method |-> "debugDelay", args |-> <<d, g[1], g[2], r>>] :
        d \in DebugRates, g \in DebugDelayRanges, r \in Randoms}

ReturnDebugDelay ==
    /\ Calling("debugDelay")
    /\ Returns(DebugDelay(invoked.args[1], invoked.args[2], invoked.args[3],
                          invoked.args[4]))

\* initializeRateManager(session), its queries succeeding: the rate manager
\* object set in this.rateManagers for the session.  Rates in hundredths.
InitializeRateManager(tasks_24h) ==
    [targetRate |-> baseRatePerMinute, currentRate |-> baseRatePerMinute,
     adjustmentFactor |-> 100, tasksSent |-> 0, tasksCompleted |-> 0]

\* session.tasks_24h of the sessions a rate manager is made for.
TasksPerDay == {1, 100, 1440, 2880, 8000, 10000}

RateManagerCalls ==
    {[method |-> "initializeRateManager", args |-> <<n>>] : n \in TasksPerDay}

ReturnRateManager ==
    /\ Calling("initializeRateManager")
    /\ Returns(InitializeRateManager(invoked.args[1]))

\* A share rounded up instead of down.
ShareRoundedUp(total, ratio, ratioSum) ==
    (total * ratio + ratioSum - 1) \div ratioSum

\* Math.floor((total * ratio) / (ratio + otherRatio))
Share(total, ratio, ratioSum) == (total * ratio) \div ratioSum

\* The desktop ratio taken for the mobile one.
SecondRatio(distribution) == distribution[2]

\* const [mobileRatio, desktopRatio] = ...: the first of the two numbers.
MobileRatio(distribution) == distribution[1]

\* calculateTaskDistribution(session), the counts of one country; every
\* country gets the same.  A distribution "a:b" is the pair <<a, b>> that
\* split(":").map(Number) makes of it.
CountryCounts(tasks_24h, countries, mobileDesktop, mobileOs, desktopOs) ==
    LET tasksPerCountry == tasks_24h \div countries
        mobileTotal == Share(tasksPerCountry, MobileRatio(mobileDesktop),
                             mobileDesktop[1] + mobileDesktop[2])
        desktopTotal == tasksPerCountry - mobileTotal
        iosCount == Share(mobileTotal, mobileOs[1], mobileOs[1] + mobileOs[2])
        windowsCount == Share(desktopTotal, desktopOs[1], desktopOs[1] + desktopOs[2])
    IN [iOS |-> iosCount, Android |-> mobileTotal - iosCount,
        Windows |-> windowsCount, macOS |-> desktopTotal - windowsCount]

\* generateTasks(session, distribution): count tasks for every entry of every
\* country; the length of the list, which the shuffle keeps.
GeneratedLength(distribution) ==
    LET RECURSIVE Sum(_)
        Sum(k) == IF k = 0 THEN 0
                  ELSE Sum(k - 1) + distribution[k].iOS + distribution[k].Android
                       + distribution[k].Windows + distribution[k].macOS
    IN Sum(Len(distribution))

\* calculateTaskDistribution and generateTasks, as processSession and
\* startTaskDistribution call them.
DistributeTasks(tasks_24h, countries, mobileDesktop, mobileOs, desktopOs) ==
    LET distribution ==
          [k \in 1..countries |->
             CountryCounts(tasks_24h, countries, mobileDesktop, mobileOs, desktopOs)]
    IN [distribution |-> distribution, length |-> GeneratedLength(distribution)]

\* Sessions that satisfy the session invariant: tasks per day, the number of
\* countries, and the three ratio pairs.
SessionTasks == {1, 2, 7, 100, 1000}
SessionCountries == {1, 2, 3}
MobileDesktopRatios == {<<70, 30>>, <<60, 40>>, <<65, 35>>, <<1, 1>>, <<1, 0>>, <<0, 1>>}
MobileOsRatios == {<<1, 2>>, <<2, 1>>, <<1, 1>>, <<0, 1>>}
DesktopOsRatios == {<<1, 2>>, <<1, 1>>}

DistributionCalls ==
    {[method |-> "calculateTaskDistribution", args |-> <<n, c, md, mo, do>>] :
        n \in SessionTasks, c \in SessionCountries, md \in MobileDesktopRatios,
        mo \in MobileOsRatios, do \in DesktopOsRatios}

ReturnDistribution ==
    /\ Calling("calculateTaskDistribution")
    /\ Returns(DistributeTasks(invoked.args[1], invoked.args[2], invoked.args[3],
                               invoked.args[4], invoked.args[5]))

\* The values a field of a session message can have: absent, a number, a
\* string of a length, an array of a length.
Undefined == [type |-> "undefined", n |-> 0]
Num(n) == [type |-> "number", n |-> n]
Str(length) == [type |-> "string", n |-> length]
Arr(length) == [type |-> "array", n |-> length]

\* A truth test under which an empty array is false, like an empty string.
TruthyUnlessEmpty(v) ==
    IF v.type = "undefined" THEN FALSE ELSE v.n # 0

\* !sessionData[field] : undefined, 0 and "" are false, every array is true.
Truthy(v) ==
    IF v.type = "undefined" THEN FALSE
    ELSE IF v.type = "array" THEN TRUE
    ELSE v.n # 0

\* validateSessionData(sessionData): the message of the error it throws, or
\* "valid".
ValidateSessionData(d) ==
    IF ~Truthy(d.tasks_24h) THEN "Missing required field: tasks_24h"
    ELSE IF ~Truthy(d.countries) THEN "Missing required field: countries"
    ELSE IF ~Truthy(d.main_page_url) THEN "Missing required field: main_page_url"
    ELSE IF ~Truthy(d.navigations) THEN "Missing required field: navigations"
    ELSE IF d.countries.type # "array" \/ d.countries.n = 0
         THEN "Countries must be a non-empty array"
    ELSE IF d.navigations.type # "array" THEN "Navigations must be an array"
    ELSE IF d.tasks_24h.type # "number" \/ d.tasks_24h.n <= 0
         THEN "tasks_24h must be a positive number"
    ELSE "valid"

\* A distribution of a session message: <<>> when absent, else the numbers
\* of its string "a:b".  storeSession: sessionData.mobile_desktop_distribution
\* || "65:35".
StoredDistribution(distribution) ==
    IF distribution = <<>> THEN <<65, 35>> ELSE distribution

\* navigations goes into its JSONB column as JSON.stringify(navigations) and
\* comes back with the row as the array it was.
StoredNavigations(navigations) == Arr(navigations.n)

NotStored == [tasks_24h |-> Undefined, countries |-> Undefined,
              navigations |-> Undefined, mobile_desktop_distribution |-> <<>>]

\* handleSessionMessage(sessionData) up to the generated tasks, with the
\* INSERT of storeSession succeeding: the statements issued to the store, the
\* row stored, the navigations of the generated tasks (generateTasks copies
\* the row's) and the error thrown to the consumer.  A validation error goes
\* to the catch, which awaits updateSessionStatus(sessionId, "failed", ...)
\* and rethrows; updateOk tells whether that UPDATE succeeds.
HandleSessionMessage(d, updateOk) ==
    LET verdict == ValidateSessionData(d) IN
    IF verdict = "valid"
    THEN LET row == [tasks_24h |-> d.tasks_24h, countries |-> d.countries,
                     navigations |-> StoredNavigations(d.navigations),
                     mobile_desktop_distribution |->
                        StoredDistribution(d.mobile_desktop_distribution)]
         IN [thrown |-> "none", issued |-> <<"INSERT sessions">>,
             stored |-> row, taskNavigations |-> row.navigations]
    ELSE [thrown |-> IF updateOk THEN verdict ELSE "store error",
          issued |-> <<"UPDATE sessions">>,
          stored |-> NotStored, taskNavigations |-> Undefined]

\* Session messages, well-formed and malformed in each field.
MessageTasks == {Undefined, Num(0), Num(-5), Num(100), Str(3)}
MessageCountries == {Undefined, Arr(0), Arr(2), Str(2)}
MessageUrls == {Undefined, Str(19)}
MessageNavigations == {Undefined, Arr(0), Arr(2), Str(5), Str(0)}
MessageDistributions == {<<>>, <<70, 30>>, <<0, 0>>, <<-1, 2>>}

SessionMessages ==
    [tasks_24h : MessageTasks, countries : MessageCountries,
     main_page_url : MessageUrls, navigations : MessageNavigations,
     mobile_desktop_distribution : MessageDistributions]

SessionCalls ==
    {[method |-> "handleSessionMessage", args |-> <<d, ok>>] :
        d \in SessionMessages, ok \in BOOLEAN}

ReturnSession ==
    /\ Calling("handleSessionMessage")
    /\ Returns(HandleSessionMessage(invoked.args[1], invoked.args[2]))

AllCalls ==
    DelayCalls \cup DebugDelayCalls \cup RateManagerCalls
        \cup DistributionCalls \cup SessionCalls

InitCalls ==
    /\ InitProgram
    /\ invoked \in AllCalls
    /\ returned = <<>>

NextCalls ==
    \/ ReturnDelay
    \/ ReturnDebugDelay
    \/ ReturnRateManager
    \/ ReturnDistribution
    \/ ReturnSession

SpecCalls == InitCalls /\ [][NextCalls]_vars

\* ------------------------------------------------ RabbitMQSetup actions
\* A promise that could be settled again.
SettleAgain(call, kind, value) ==
    [call EXCEPT !.promise = kind, !.value = value, !.delivered = @ + 1]

\* resolve(value) / reject(error) of the promise sendRPCRequest returns: a
\* promise settles once, later calls do nothing.  The caller awaiting it is
\* resumed when it settles.
Settle(call, kind, value) ==
    IF call.promise = "pending"
    THEN [call EXCEPT !.promise = kind, !.value = value, !.delivered = @ + 1]
    ELSE call

\* A consumer callback without the test of the correlation id.
MatchesAny(c, msg) == TRUE

\* The consumer callback's test: response.properties.correlationId ===
\* correlationId
Matches(c, msg) == msg.correlationId = c

\* setupRPCConsumer: the worker answers a request on its replyTo queue with
\* the request's correlation id; the body is the handler's result for that
\* request.
WorkerReply(req) ==
    [to |-> req.replyTo, correlationId |-> req.correlationId,
     body |-> ReplyBody(req.call)]

\* sendRPCRequest is called: the executor draws the correlation id and awaits
\* setupRPC().  Calls are numbered in the order they are made.
RpcSend(c) ==
    /\ rpcCalls[c].phase = "idle"
    /\ \A b \in Calls : b < c => rpcCalls[b].phase # "idle"
    /\ rpcCalls' = [rpcCalls EXCEPT ![c].phase = "setup"]
    /\ UNCHANGED <<workQueue, replyQueues, cvars, mvars, fvars, svars>>

\* setupRPC() returns the reply queue: the timer is armed and channel.consume
\* awaited.  If assertQueue throws, the executor ends before the timer is set.
RpcSetup(c) ==
    /\ rpcCalls[c].phase = "setup"
    /\ \E ok \in BOOLEAN :
         rpcCalls' = IF ok
                     THEN [rpcCalls EXCEPT ![c].phase = "consume",
                                           ![c].timer = "armed"]
                     ELSE [rpcCalls EXCEPT ![c].phase = "dead"]
    /\ UNCHANGED <<workQueue, replyQueues, cvars, mvars, fvars, svars>>

\* channel.consume returns: the consumer is registered and the request is
\* written to the queue with correlationId and replyTo.  Either call can
\* throw, which ends the executor with the timer still armed.
RpcConsume(c) ==
    /\ rpcCalls[c].phase = "consume"
    /\ \E okConsume, okPublish \in BOOLEAN :
         /\ rpcCalls' = [rpcCalls EXCEPT
                           ![c].consumer = okConsume,
                           ![c].phase = IF okConsume /\ okPublish
                                        THEN "sent" ELSE "dead"]
         /\ workQueue' = IF okConsume /\ okPublish
                         THEN workQueue \cup
                                {[call |-> c, correlationId |-> c,
                                  replyTo |-> c, deliveries |-> 0]}
                         ELSE workQueue
    /\ UNCHANGED <<replyQueues, cvars, mvars, fvars, svars>>

\* The timeout fires: reject(new Error("RPC request timeout ...")).
RpcTimeout(c) ==
    /\ rpcCalls[c].timer = "armed"
    /\ rpcCalls' = [rpcCalls EXCEPT
                      ![c] = Settle([@ EXCEPT !.timer = "fired"],
                                    "rejected", TimeoutError)]
    /\ UNCHANGED <<workQueue, replyQueues, cvars, mvars, fvars, svars>>

\* The worker handles a request and replies.  The broker delivers a request
\* again when the worker's ack does not reach it.
WorkerHandle(req) ==
    /\ req \in workQueue
    /\ Len(replyQueues[WorkerReply(req).to]) < MaxDeliveries
    /\ replyQueues' = [replyQueues EXCEPT
                         ![WorkerReply(req).to] = Append(@, WorkerReply(req))]
    /\ \E acked \in BOOLEAN :
         workQueue' = IF acked \/ req.deliveries + 1 >= MaxDeliveries
                      THEN workQueue \ {req}
                      ELSE (workQueue \ {req}) \cup
                             {[req EXCEPT !.deliveries = @ + 1]}
    /\ UNCHANGED <<rpcCalls, cvars, mvars, fvars, svars>>

\* The broker hands the next message of reply queue c to its consumer
\* callback: on a matching correlation id clearTimeout, ack and resolve with
\* the parsed body; any other message is left alone.
RpcDeliver(c) ==
    /\ rpcCalls[c].consumer
    /\ replyQueues[c] # <<>>
    /\ LET msg == Head(replyQueues[c])
           call == rpcCalls[c]
       IN rpcCalls' =
            IF Matches(c, msg)
            THEN [rpcCalls EXCEPT
                    ![c] = Settle([call EXCEPT
                                     !.timer = IF @ = "armed" THEN "cleared" ELSE @,
                                     !.acked = @ + 1],
                                  "resolved", msg.body)]
            ELSE rpcCalls
    /\ replyQueues' = [replyQueues EXCEPT ![c] = Tail(@)]
    /\ UNCHANGED <<workQueue, cvars, mvars, fvars, svars>>

\* A message that answers no request of this process is published to the
\* reply queue of call c, under a correlation id no call has (0).
StrayReply(c) ==
    /\ rpcCalls[c].timer # "none"   \* setupRPC has returned the queue
    /\ Len(replyQueues[c]) < MaxDeliveries
    /\ replyQueues' = [replyQueues EXCEPT
                         ![c] = Append(@, [to |-> c,
                                           correlationId |-> 0,
                                           body |-> ReplyBody(0)])]
    /\ UNCHANGED <<rpcCalls, workQueue, cvars, mvars, fvars, svars>>

NextRPC ==
    \/ \E c \in Calls : RpcSend(c)
    \/ \E c \in Calls : RpcSetup(c)
    \/ \E c \in Calls : RpcConsume(c)
    \/ \E c \in Calls : RpcTimeout(c)
    \/ \E req \in workQueue : WorkerHandle(req)
    \/ \E c \in Calls : RpcDeliver(c)
    \/ \E c \in Calls : StrayReply(c)

SpecRPC == Init /\ [][NextRPC]_vars

\* Timers fire, awaited broker calls return or throw, the worker and the
\* broker's deliveries make progress.
FairRPC ==
    /\ \A c \in Calls : WF_vars(RpcSetup(c))
    /\ \A c \in Calls : WF_vars(RpcConsume(c))
    /\ \A c \in Calls : WF_vars(RpcTimeout(c))
    /\ \A c \in Calls : WF_vars(RpcDeliver(c))
    /\ WF_vars(\E req \in workQueue : WorkerHandle(req))

FairSpecRPC == SpecRPC /\ FairRPC

\* ============================================================ properties
\* ------------------------------------------------------------------- C1
\* C1: a task is marked permanently failed for an RPC failure (timeout or
\* failed hand-off) only after it has been retried maxRetries times: at the
\* step that writes the permanent failure, the task object of some dispatch
\* loop holds retryCount = maxRetries.
C1_FailedOnlyAfterMaxRetries ==
    [][\A t \in Tasks :
         (dbTask'[t].lastError = "rpc" /\ dbTask[t].lastError # "rpc")
         => \E l \in 1..Len(loops) : \E i \in 1..Len(loops[l].tasks) :
               TaskAt(loops[l], i) = t /\ loops[l].retry[i] = maxRetries]_vars

\* ------------------------------------------------------------------- C2
\* Loop l has handed every task of its list to the work channel.
AllHandedOff(l) == loops[l].taskIndex >= Len(loops[l].tasks)

\* C2: the send cadence does not depend on replies: with no assumption that
\* any reply ever arrives, a dispatch loop that is under way always gets to
\* the point where every task of its list has been handed to the work
\* channel, unless the service is stopped or the process ends first.
C2_CadenceIndependentOfReplies ==
    \A l \in 1..MaxLoops :
        (l <= Len(loops) /\ isRunning /\ ~AllHandedOff(l))
        ~> (l > Len(loops) \/ ~isRunning \/ AllHandedOff(l))

\* Both tasks of a loop are handed off while the replies to both are still
\* outstanding.
C2_SentAheadOfReplies ==
    \E l \in 1..Len(loops) :
        /\ Len(loops[l].tasks) = 2
        /\ loops[l].taskIndex = 2
        /\ inflight[TaskAt(loops[l], 1)] > 0
        /\ inflight[TaskAt(loops[l], 2)] > 0

\* ------------------------------------------------------------------- C3
\* The step of loop l in which the catch block of sendNextTask ran: the
\* failure handler counted a retry of the loop's current task.
FailedStep(l) ==
    /\ l <= Len(loops)
    /\ l <= Len(loops')
    /\ loops[l].pc = "writing"
    /\ loops'[l].retry # loops[l].retry

CurrentTask(l) == TaskAt(loops[l], loops[l].taskIndex)

C4_RecoveryIdempotent ==
    /\ \A i, j \in 1..Len(activeSessions) :
          activeSessions[i] = activeSessions[j] => i = j
    /\ \A l1, l2 \in 1..Len(loops) :
          (/\ loops[l1].recovered
           /\ loops[l2].recovered
           /\ loops[l1].session = loops[l2].session
           /\ loops[l1].tasks = loops[l2].tasks)
          => l1 = l2

\* ------------------------------------------------------------------- C5
\* The step in which the recovery starts a dispatch loop.
RecoveryStartsLoop ==
    /\ Len(loops') = Len(loops) + 1
    /\ loops'[Len(loops')].recovered

\* The tasks of session s the recovery query read as pending.
ReadAsPending(s) ==
    {r.idx : r \in {x \in Range(Head(recQueue).rows) : x.status = "pending"}}

\* C5: a dispatch loop started by recovery runs over only the tasks the
\* recovery read as pending in the store, and the hand-off it starts with is
\* of such a task: a task read as sent is not handed off by recovery.
C5_RecoveryOnlyPending ==
    [][RecoveryStartsLoop
       => LET lp == loops'[Len(loops')] IN
          /\ lp.session = Head(recQueue).session
          /\ Range(lp.tasks) \subseteq ReadAsPending(lp.session)
          /\ \A t \in Tasks :
                inflight'[t] > inflight[t]
                => SessionOf(t) = lp.session /\ t[2] \in ReadAsPending(lp.session)]_vars

\* A loop started by recovery runs while another task of its session, which
\* is not in the loop's list, stands as sent in the store.
C5_SentTaskLeftOut ==
    \E l \in 1..Len(loops) :
        /\ loops[l].recovered
        /\ \E i \in 1..MaxTasks :
              /\ dbTask[<<loops[l].session, i>>].status = "sent"
              /\ i \notin Range(loops[l].tasks)

\* ------------------------------------------------------------------- C6
\* C6: a send that has resolved holds the reply to its own request, whatever
\* the order of the sends and of the replies.
C6_ResolvesToOwnReply ==
    \A c \in Calls :
        rpcCalls[c].promise = "resolved" => rpcCalls[c].value = ReplyBody(c)

\* The second send has resolved with its reply while the first, whose
\* request is out, is still waiting: replies out of send order.
C6_RepliesOutOfOrder ==
    /\ rpcCalls[1].phase = "sent"
    /\ rpcCalls[1].promise = "pending"
    /\ rpcCalls[2].promise = "resolved"

\* ------------------------------------------------------------------- C7
\* C7: every send that was made eventually settles, by its reply or by its
\* timeout.
C7_EverySendSettles ==
    \A c \in Calls :
        (rpcCalls[c].phase # "idle") ~> (rpcCalls[c].promise # "pending")

\* ------------------------------------------------------------------- C8
\* C8: once a send has settled, its timer is not armed and its reply consumer
\* is gone.
C8_NoLeakAfterSettle ==
    \A c \in Calls :
        rpcCalls[c].promise # "pending"
        => rpcCalls[c].timer # "armed" /\ ~rpcCalls[c].consumer

C10_NoSendAfterStopSession ==
    [][\A t \in Tasks :
         dbSession[SessionOf(t)] = "stopped" => inflight'[t] <= inflight[t]]_vars

\* ------------------------------------------------------------------ C11
\* C11: when the dispatch loop of a stopped session terminates, the
\* session's persisted status is still stopped.
C11_StoppedWhenLoopEnds ==
    [][\A l \in 1..MaxLoops :
         (/\ l <= Len(loops)
          /\ l <= Len(loops')
          /\ dbSession[loops[l].session] = "stopped"
          /\ loops[l].pc # "done"
          /\ loops'[l].pc = "done")
         => dbSession'[loops[l].session] = "stopped"]_vars

C13_CursorEndFinalizes ==
    [][\A l \in 1..MaxLoops :
         (/\ l <= Len(loops)
          /\ l <= Len(loops')
          /\ AllHandedOff(l)
          /\ loops[l].pc = "completing"
          /\ loops'[l].pc = "done")
         => /\ dbSession'[loops[l].session] = "completed"
            /\ loops[l].session \notin Range(activeSessions')
            /\ loops[l].session \notin rateManagers']_vars

TasksIn(s, st) == {t \in Tasks : SessionOf(t) = s /\ dbTask[t].status = st}

\* The session counters equal the numbers of tasks in the terminal statuses.
CountersMatch ==
    \A s \in Sessions :
        /\ dbCounters[s].tasks_completed = Cardinality(TasksIn(s, "completed"))
        /\ dbCounters[s].tasks_failed = Cardinality(TasksIn(s, "failed"))

\* A reply is recorded by the Rate Manager as one completed or one failed
\* task.
ReplyFeedsRateManager ==
    \A t \in Tasks, st \in {"successful", "failed"} :
        RpcResolve(t, st)
        => statistics'.tasksCompleted + statistics'.tasksFailed
             = statistics.tasksCompleted + statistics.tasksFailed + 1

\* C15: every task outcome is accounted: the session's counters always equal
\* the numbers of its tasks in status completed and failed, and every reply
\* is fed to the Rate Manager.
C15_OutcomesAccounted == []CountersMatch /\ [][ReplyFeedsRateManager]_vars

\* ------------------------------------------------------------------ C16
\* C16: the retryCount of every task object is at most maxRetries, however
\* often the failure handler is called for it.
C16_RetryCountBounded ==
    \A l \in 1..Len(loops) : \A i \in 1..Len(loops[l].tasks) :
        loops[l].retry[i] <= maxRetries

\* A task has been retried maxRetries times and is then written failed by
\* the permanent branch.
C16_RetriesExhausted ==
    \E l \in 1..Len(loops) : \E i \in 1..Len(loops[l].tasks) :
        /\ loops[l].retry[i] = maxRetries
        /\ dbTask[TaskAt(loops[l], i)] = [status |-> "failed", lastError |-> "rpc"]

\* ------------------------------------------------------------------ C17
\* C17: recovery starts a dispatch loop only for a session whose persisted
\* status is processing or active, never for one that is completed, failed
\* or stopped.
C17_RecoveryOnlyResumable ==
    [][RecoveryStartsLoop
       => dbSession[loops'[Len(loops')].session] \in {"processing", "active"}]_vars

\* ------------------------------------------------------------------ C18
\* The turn of the recovery's for loop for the session at the head of the
\* queue fails: initializeRateManager throws and the catch runs.
ResumeFails ==
    /\ recQueue # <<>>
    /\ \E ok2 \in BOOLEAN : ResumeFailed(Head(recQueue).session, ok2)
    /\ UNCHANGED <<dbTask, isRunning, consumerUp, recoveries, retryTimers,
                   intakePc, dbCounters, mvars, rvars, fvars, svars>>

\* C18: when resuming one session fails, that session is marked failed and
\* the recovery goes on with the sessions after it in the queue.
C18_RecoveryErrorIsolated ==
    [][ResumeFails
       => /\ dbSession'[Head(recQueue).session] = "failed"
          /\ recQueue' = Tail(recQueue)]_vars

\* ------------------------------------------------------------------ C19
\* C19: the rate multiplier is within [0.1, 3.0] after every sequence of
\* adjustment calls.
C19_MultiplierWithinBounds ==
    /\ currentRateMultiplier >= 10
    /\ currentRateMultiplier <= 300

\* Repeated adjustments have driven the multiplier to its lower bound.
C19_AtLowerBound == currentRateMultiplier = 10

\* ------------------------------------------------------------------ C20
\* C20: an adjustment changes the multiplier in proportion to its current
\* value, multiplier * (1 + adjustment), and the result is then clamped to
\* [0.1, 3.0].  Both sides are in ten-thousandths.
C20_AppliedMultiplicatively ==
    [][\A sr \in SuccessRates, ct \in CompletionTimes, sp \in ScheduleProgresses :
          AdjustRate(sr, ct, sp)
          => LET product == currentRateMultiplier * (100 + Adjustment(sr, ct, sp))
                 capped == IF product < 30000 THEN product ELSE 30000
             IN currentRateMultiplier' * 100
                  = IF capped > 1000 THEN capped ELSE 1000]_vars

\* ------------------------------------------------------------------ C21
\* A firing is counted once and emits the one rate-change event.
CountedOnce(event) ==
    /\ statistics'.rateAdjustments =
         [statistics.rateAdjustments EXCEPT !.n = @ + 1]
    /\ emitted' = <<event>>

\* A call that does not fire changes nothing and emits nothing.
NothingFired ==
    /\ currentRateMultiplier' = currentRateMultiplier
    /\ statistics'.rateAdjustments = statistics.rateAdjustments
    /\ emitted' = <<>>

\* C21: on the on-demand and on the periodic path an adjustment fires only
\* when the sum of the three signals is above the threshold in size; a
\* firing increments the adjustment count by one and emits one rate-change
\* event, and a call that does not fire leaves the multiplier and the count
\* unchanged and emits nothing.
C21_FiresOnlyAboveThreshold ==
    [][/\ \A x \in MixedArguments :
            AdjustRate(x[1], x[2], x[3])
            => IF SignalSum(x[1], x[2], x[3]) # 0
               THEN CountedOnce("rateChanged") ELSE NothingFired
       /\ \A e \in ExpectedProgresses :
            AdjustRateTick(e)
            => IF CalculateRateAdjustment(e) # 0
               THEN CountedOnce("rateAdjusted") ELSE NothingFired]_vars

\* ------------------------------------------------------------------ C22
\* One signal is given and the other two are between their thresholds.
OnlySuccess(ct, sp) == ct >= 3000 /\ ct <= 10000 /\ sp >= 80 /\ sp <= 120
OnlyTime(sr, sp) == sr >= 80 /\ sr < 95 /\ sp >= 80 /\ sp <= 120
OnlyProgress(sr, ct) == sr >= 80 /\ sr < 95 /\ ct >= 3000 /\ ct <= 10000

\* C22: from multiplier 1.0, one adjustment strictly lowers the current rate
\* for a low success rate, for slow completions or for being ahead of
\* schedule, and strictly raises it for a high success rate (0.95 counts as
\* high), for fast completions or for being behind schedule.
C22_AdjustmentDirection ==
    [][\A sr \in SuccessRates, ct \in CompletionTimes, sp \in ScheduleProgresses :
          (currentRateMultiplier = 100 /\ AdjustRate(sr, ct, sp))
          => LET old == CurrentRatePerMinute(currentRateMultiplier)
                 new == CurrentRatePerMinute(currentRateMultiplier')
             IN /\ (sr < 80 /\ OnlySuccess(ct, sp)) => new < old
                /\ (ct > 10000 /\ OnlyTime(sr, sp)) => new < old
                /\ (sp > 120 /\ OnlyProgress(sr, ct)) => new < old
                /\ (sr >= 95 /\ OnlySuccess(ct, sp)) => new > old
                /\ (ct < 3000 /\ OnlyTime(sr, sp)) => new > old
                /\ (sp < 80 /\ OnlyProgress(sr, ct)) => new > old]_vars

\* ------------------------------------------------------------------ C23
\* C23: the next-delay computation returns a delay from 1000 ms to 20000 ms
\* for every base rate, every multiplier in [0.1, 3.0] and every random
\* factor.
C23_DelayWithinFloorAndCeiling ==
    (invoked.method = "calculateNextTaskDelay" /\ returned # <<>>)
    => (returned[1] >= 1000 /\ returned[1] <= 20000)

\* A delay that was above the ceiling before the clamp has been returned.
C23_DelayAtCeiling ==
    /\ invoked.method = "calculateNextTaskDelay"
    /\ returned = <<20000>>
    /\ (6000000 * invoked.args[3]) \div (invoked.args[1] * invoked.args[2]) > 20000

\* ------------------------------------------------------------------ C24
\* C24: the rate manager made for a session has a base rate of the
\* session's tasks per day divided by 1440, to the hundredth.
C24_BaseRateFromTasksPerDay ==
    (invoked.method = "initializeRateManager" /\ returned # <<>>)
    => LET difference == returned[1].targetRate * 1440 - invoked.args[1] * 100
       IN difference <= 720 /\ difference >= -720

\* ------------------------------------------------------------------ C25
\* C25: the generated list has countries * floor(tasksPerDay / countries)
\* tasks; every country gets floor(tasksPerDay / countries) of them, its iOS
\* and Android tasks make its mobile count and its Windows and macOS tasks
\* its desktop count.
C25_DistributionCounts ==
    (invoked.method = "calculateTaskDistribution" /\ returned # <<>>)
    => LET perCountry == invoked.args[1] \div invoked.args[2]
           mobile == (perCountry * invoked.args[3][1])
                        \div (invoked.args[3][1] + invoked.args[3][2])
           result == returned[1]
       IN /\ result.length = invoked.args[2] * perCountry
          /\ Len(result.distribution) = invoked.args[2]
          /\ \A k \in 1..Len(result.distribution) :
               LET c == result.distribution[k] IN
               /\ c.iOS + c.Android + c.Windows + c.macOS = perCountry
               /\ c.iOS + c.Android = mobile
               /\ c.Windows + c.macOS = perCountry - mobile

\* 100 tasks over 3 countries: 99 tasks are generated.
C25_FloorTruncates ==
    /\ invoked.method = "calculateTaskDistribution"
    /\ returned # <<>>
    /\ returned[1].length < invoked.args[1]
    /\ returned[1].length > 0

\* ------------------------------------------------------------------ C26
\* The mobile and the desktop count of the first country of a returned
\* distribution.
MobileCount == returned[1].distribution[1].iOS + returned[1].distribution[1].Android
DesktopCount == returned[1].distribution[1].Windows + returned[1].distribution[1].macOS

\* A distribution has been returned for a session whose mobile ratio is
\* larger than its desktop ratio.
MobileShareLarger ==
    /\ invoked.method = "calculateTaskDistribution"
    /\ returned # <<>>
    /\ invoked.args[3][1] > invoked.args[3][2]

\* C26 as stated: whenever the mobile share is larger than the desktop
\* share, the mobile count per country strictly exceeds the desktop count.
C26_MobileAlwaysExceedsDesktop == MobileShareLarger => MobileCount > DesktopCount

\* C26: with a larger mobile share the mobile count per country is at most
\* one below the desktop count, and it strictly exceeds the desktop count
\* when tasksPerCountry * (mobile - desktop) >= 2 * (mobile + desktop).
C26_MobileExceedsDesktopGivenEnoughTasks ==
    MobileShareLarger
    => LET perCountry == invoked.args[1] \div invoked.args[2]
           m == invoked.args[3][1]
           d == invoked.args[3][2]
       IN /\ MobileCount >= DesktopCount - 1
          /\ perCountry * (m - d) >= 2 * (m + d) => MobileCount > DesktopCount

\* 70:30 with 100 tasks over 3 countries: 23 mobile and 10 desktop.
C26_UnevenDistribution ==
    /\ MobileShareLarger
    /\ invoked.args[1] = 100 /\ invoked.args[2] = 3 /\ invoked.args[3] = <<70, 30>>
    /\ MobileCount = 23 /\ DesktopCount = 10

\* ------------------------------------------------------------------ C27
\* handleSessionMessage has returned for the session message d.
Handled == invoked.method = "handleSessionMessage" /\ returned # <<>>

\* A malformed session: a required field absent, countries empty,
\* navigations present but not a list, or tasksPerDay not a positive number.
Malformed(d) ==
    \/ Undefined \in {d.tasks_24h, d.countries, d.main_page_url, d.navigations}
    \/ d.countries = Arr(0)
    \/ d.navigations.type # "array"
    \/ d.tasks_24h.type # "number" \/ d.tasks_24h.n <= 0

\* C27: a malformed session is rejected with a validation error, which is
\* the error the caller gets, and no write to the store is issued for it.
C27_RejectedBeforeAnyWrite ==
    (Handled /\ Malformed(invoked.args[1]))
    => /\ returned[1].issued = <<>>
       /\ returned[1].thrown = ValidateSessionData(invoked.args[1])
       /\ returned[1].thrown # "valid"

\* ------------------------------------------------------------------ C28
\* A session message that is well-formed and has navigations = [].
MainPageOnly(d) ==
    /\ d.navigations = Arr(0)
    /\ d.tasks_24h.type = "number" /\ d.tasks_24h.n > 0
    /\ d.countries.type = "array" /\ d.countries.n > 0
    /\ d.main_page_url.type = "string" /\ d.main_page_url.n > 0

\* C28: a session with navigations = [] validates, and every task generated
\* for it carries an empty navigation list.
C28_EmptyNavigationsValid ==
    (Handled /\ MainPageOnly(invoked.args[1]))
    => /\ returned[1].thrown = "none"
       /\ returned[1].taskNavigations = Arr(0)

\* A main-page-only session has been handled and stored.
C28_MainPageOnlyStored ==
    /\ Handled
    /\ MainPageOnly(invoked.args[1])
    /\ returned[1].issued = <<"INSERT sessions">>
    /\ returned[1].stored.navigations = Arr(0)

\* ------------------------------------------------------------------ C29
\* C29: every session that intake persists has countries non-empty,
\* tasksPerDay > 0 and ratio pairs of non-negative integers whose sum is
\* positive.
C29_PersistedSessionInvariant ==
    (Handled /\ returned[1].stored # NotStored)
    => LET row == returned[1].stored IN
       /\ row.countries.type = "array" /\ row.countries.n > 0
       /\ row.tasks_24h.type = "number" /\ row.tasks_24h.n > 0
       /\ row.mobile_desktop_distribution[1] >= 0
       /\ row.mobile_desktop_distribution[2] >= 0
       /\ row.mobile_desktop_distribution[1] + row.mobile_desktop_distribution[2] > 0

\* C30: within one session tasks are dispatched in list order. Every step
\* that advances a loop's cursor advances it by one position and hands
\* exactly the task at the new position to the worker queue once; a loop
\* starts at position one or not at all; and every other hand-off (a retry)
\* is of a position some loop of the session has already passed, so the
\* first send of position i precedes the first send of position i + 1.
PositionOf(lp, t) ==
    {i \in 1..Len(lp.tasks) : <<lp.session, lp.tasks[i]>> = t}

CursorSend(l, t) ==
    /\ loops'[l].taskIndex \in PositionOf(loops'[l], t)
    /\ IF l <= Len(loops)
       THEN loops'[l].taskIndex = loops[l].taskIndex + 1
       ELSE loops'[l].taskIndex = 1

Resend(t) ==
    \E l \in 1..Len(loops) :
       \E i \in PositionOf(loops[l], t) : i <= loops[l].taskIndex

C30_DispatchedInListOrder ==
    [][/\ \A l \in 1..Len(loops') :
             /\ l <= Len(loops) =>
                  /\ loops'[l].tasks = loops[l].tasks
                  /\ loops'[l].taskIndex \in
                       {loops[l].taskIndex, loops[l].taskIndex + 1}
             /\ l > Len(loops) => loops'[l].taskIndex \in {0, 1}
             /\ (l > Len(loops) \/ loops'[l].taskIndex # loops[l].taskIndex)
                /\ loops'[l].taskIndex > 0
                => LET t == <<loops'[l].session,
                              loops'[l].tasks[loops'[l].taskIndex]>>
                   IN inflight'[t] = inflight[t] + 1
       /\ \A t \in Tasks :
             inflight'[t] > inflight[t] =>
                \/ \E l \in 1..Len(loops') : CursorSend(l, t)
                \/ Resend(t)]_vars

\* A loop that has handed off position one and then position two.
C30_SecondPositionSent ==
    \E l \in 1..Len(loops) :
       /\ Len(loops[l].tasks) = 2
       /\ loops[l].taskIndex = 2
       /\ loops[l].pc = "writing"
       /\ inflight[<<loops[l].session, loops[l].tasks[2]>>] > 0

\* C31: a process closes its connection to the work channel only after its
\* active tasks have finished or after the grace period has elapsed.  The
\* client's active tasks are its RPCs in flight; the worker's are the tasks
\* that were active when its shutdown began, and its grace period is the
\* timeout of waitForActiveTasks.
ClientCloses == signal # "closed" /\ signal' = "closed"

WorkerCloses == workerPc # "closed" /\ workerPc' = "closed"

C31_ClosedAfterDrainOrGrace ==
    [][/\ ClientCloses => \A t \in Tasks : inflight[t] = 0
       /\ WorkerCloses => atShutdown = {} \/ waited >= timeoutMs]_vars

\* The worker alone keeps the grace period.
C31_WorkerClosedAfterDrainOrGrace ==
    [][WorkerCloses => atShutdown = {} \/ waited >= timeoutMs]_vars

\* C32: the list of completion-time samples never holds more than 100
\* samples, whichever recording operation added them.
C32_SampleWindowBounded ==
    Len(statistics.completionTimes) <= maxCompletionTimes

\* recordTaskCompleted alone keeps the list within 100 samples.
C32_TrimmedByRecordTaskCompleted ==
    [][statistics'.completionTimes # statistics.completionTimes
       /\ Len(statistics'.completionTimes) > 0
       /\ statistics'.completionTimes[Len(statistics'.completionTimes)] = "number"
       => Len(statistics'.completionTimes) <= maxCompletionTimes]_vars

\* C33: in debug fast mode the delay between two sends is never below
\* debugMinDelayMs and never above debugMaxDelayMs, for every debug rate.
C33_DebugDelayWithinFloorAndCeiling ==
    (invoked.method = "debugDelay" /\ returned # <<>>)
    => (returned[1] >= invoked.args[2] /\ returned[1] <= invoked.args[3])

\* The ceiling alone is kept for every debug rate.
C33_DebugDelayBelowCeiling ==
    (invoked.method = "debugDelay" /\ returned # <<>>)
    => returned[1] <= invoked.args[3]

\* C34: no task ever has two RPCs in flight at the same time: a task is sent
\* again only after its previous send has failed or timed out, also when
\* only the write of its sent status fails.
C34_OneRpcInFlightPerTask ==
    \A t \in Tasks : inflight[t] <= 1

\* C35: a task's persisted status never moves from completed or failed back
\* to sent, however the loop's sent write and the outcome write of the reply
\* or failure handler interleave.
C35_OutcomeNeverBackToSent ==
    [][\A t \in Tasks :
         dbTask[t].status \in {"completed", "failed"}
         => dbTask'[t].status # "sent"]_vars

\* What in the running process can still settle task t: an RPC in flight, a
\* retry timer, or a dispatch loop that holds the task.
HeldByProcess(t) ==
    \/ inflight[t] > 0
    \/ \E tm \in retryTimers : tm.task = t
    \/ \E l \in 1..Len(loops) :
          loops[l].session = SessionOf(t) /\ t[2] \in Range(loops[l].tasks)

\* recoverPendingTasks has resumed the session at the head of its groups.
SessionResumed ==
    /\ recQueue # <<>>
    /\ recQueue' = Tail(recQueue)
    /\ Head(recQueue).session \in rateManagers'

\* C36: every task that has been marked sent eventually reaches completed or
\* failed, also when the process ends while the task is in flight and the
\* recovery then runs.  As a property of the recovery's step: a task the
\* recovery read as sent is held by the process once its session is resumed
\* (a task that nothing holds is written by no later step, and stays sent).
C36_RecoveryTakesUpSentTasks ==
    [][SessionResumed
       => \A t \in Tasks :
             (/\ SessionOf(t) = Head(recQueue).session
              /\ \E r \in Range(Head(recQueue).rows) :
                    r.idx = t[2] /\ r.status = "sent")
             => HeldByProcess(t)']_vars

\* C37: a session's terminal status is absorbing: once its persisted status
\* is completed, failed or stopped, no later write changes it.
C37_TerminalStatusAbsorbing ==
    [][\A s \in Sessions :
         dbSession[s] \in {"completed", "failed", "stopped"}
         => dbSession'[s] = dbSession[s]]_vars

\* The case the claim names: intake's write of active does not land on a
\* session the dispatch loop has written completed.
C37_ActiveNeverAfterCompleted ==
    [][\A s \in Sessions :
         dbSession[s] = "completed" => dbSession'[s] # "active"]_vars

\* Task t has never been sent: it stands as pending and every dispatch loop
\* of its session that holds it has its cursor before it.
Unsent(t) ==
    /\ dbTask[t].status = "pending"
    /\ \A l \in 1..Len(loops) :
          loops[l].session = SessionOf(t)
          => \A i \in PositionOf(loops[l], t) : i > loops[l].taskIndex

\* C38: a session's persisted status becomes completed only when none of
\* its tasks is still pending and unsent; stopping the service with unsent
\* tasks does not mark their session completed.
C38_CompletedOnlyWhenAllSent ==
    [][\A t \in Tasks :
         (dbSession[SessionOf(t)] # "completed"
          /\ dbSession'[SessionOf(t)] = "completed")
         => ~Unsent(t)']_vars

\* Session s has a dispatch loop that has not ended.
HasRunningLoop(s) ==
    \E l \in 1..Len(loops) : loops[l].session = s /\ loops[l].pc # "done"

\* C39: outside a running recovery, the sessions with a running dispatch
\* loop are the sessions with an entry in activeSessions and the sessions
\* with an entry in rateManagers.
C39_RegistriesMatchLoops ==
    recQueue = <<>>
    => \A s \in Sessions :
          /\ HasRunningLoop(s) <=> s \in Range(activeSessions)
          /\ HasRunningLoop(s) <=> s \in rateManagers

\* C40: the two rate representations of the rate manager agree: currentRate
\* equals baseRatePerMinute * currentRateMultiplier, to the hundredth of a
\* task per minute, after any adjustRate and adjustRateBasedOnPerformance.
C40_RateRepresentationsAgree ==
    LET difference == currentRate * 100 - CurrentRatePerMinute(currentRateMultiplier)
    IN difference <= 100 /\ difference >= -100

====
